---- MODULE Spec2Model ----
(***************************************************************************)
(* Portfolio ledger engine of the paper-trading system                     *)
(* (src/src/trading/portfolio.py, src/src/models/trade.py).                *)
(*                                                                         *)
(* Money is held as an integer number of 1/Scale dollars, Scale being      *)
(* RateDen * RateDen, so that a price times (1 +- slippage_rate) times a   *)
(* quantity times commission_rate is an exact integer.  A rate is the      *)
(* numerator of a fraction over RateDen.  A quotient the code computes by  *)
(* true division (average_price, pnl_percent) is an exact fraction         *)
(* [num, den] in lowest terms.                                             *)
(***************************************************************************)
EXTENDS Integers, Sequences, FiniteSets, TLC

VARIABLES initial_capital, commission_rate, slippage_rate,
          cash, positions, orders, trades,
          peak_value, total_commissions, total_slippage,
          ret, calls

vars == <<initial_capital, commission_rate, slippage_rate,
          cash, positions, orders, trades,
          peak_value, total_commissions, total_slippage, ret, calls>>

ledger == <<cash, positions, trades, total_commissions, total_slippage>>

----------------------------------------------------------------------------
(* Bounds of the model *)

MaxOrders == 2

RateDen == 2

Scale == RateDen * RateDen

Quantities == {1, 2}

Prices == {1, 2, 3}

LimitPrices == {2}

LimitQuantities == {1}

InitialCapitals == {5}

\* <<commission_rate, slippage_rate>>, each a numerator over RateDen
RatePairs == {<<0, 0>>, <<1, 1>>}

OrderPairs == {<<"algo", "AAPL">>, <<"algo", "MSFT">>}

----------------------------------------------------------------------------
(* Values *)

Money(dollars) == dollars * Scale

None == <<>>

Some(v) == <<v>>

Abs(n) == IF n < 0 THEN -n ELSE n

RECURSIVE GCD(_, _)
GCD(a, b) == IF b = 0 THEN a ELSE GCD(b, a % b)

\* the quotient n / d of true division, d # 0
Frac(n, d) ==
    LET g == GCD(Abs(n), Abs(d))
        s == IF d < 0 THEN -1 ELSE 1
    IN  [num |-> (s * n) \div g, den |-> (s * d) \div g]

FracOfInt(n) == [num |-> n, den |-> 1]

FracAdd(a, b) == Frac(a.num * b.den + b.num * a.den, a.den * b.den)

FracSub(a, b) == Frac(a.num * b.den - b.num * a.den, a.den * b.den)

FracMul(a, b) == Frac(a.num * b.num, a.den * b.den)

FracDiv(a, b) == Frac(a.num * b.den, a.den * b.num)

\* x * rate, rate being a numerator over RateDen
TimesRate(x, rate) == (x * rate) \div RateDen

----------------------------------------------------------------------------
(* Portfolio.__init__ *)

\* the execute_order calls under way when a caller is in the middle of one:
\* none when every call runs to its end before the next one starts
NoCalls == <<>>

EmptyBook == [key \in {} |-> None]

Init ==
    /\ initial_capital \in {Money(c) : c \in InitialCapitals}
    /\ \E rates \in RatePairs :
          commission_rate = rates[1] /\ slippage_rate = rates[2]
    /\ cash = initial_capital
    /\ positions = EmptyBook
    /\ orders = <<>>
    /\ trades = <<>>
    /\ peak_value = initial_capital
    /\ total_commissions = 0
    /\ total_slippage = 0
    /\ ret = "none"
    /\ calls = NoCalls

(* the key of the position book *)
PositionKey(algorithm_id, symbol) == algorithm_id \o ":" \o symbol

OrderKey(order) == PositionKey(order.algorithm_id, order.symbol)

(* Portfolio.get_position *)
GetPosition(symbol, algorithm_id) ==
    IF PositionKey(algorithm_id, symbol) \in DOMAIN positions
    THEN Some(positions[PositionKey(algorithm_id, symbol)])
    ELSE None

(* Portfolio.create_order *)
NewOrder(order_id, algorithm_id, symbol, side, quantity, order_type, limit_price) ==
    [order_id     |-> order_id,
     algorithm_id |-> algorithm_id,
     symbol       |-> symbol,
     order_type   |-> order_type,
     side         |-> side,
     quantity     |-> quantity,
     limit_price  |-> limit_price,
     filled_price |-> None,
     status       |-> "PENDING",
     filled_at    |-> None,
     commission   |-> 0,
     slippage     |-> 0]

\* a limit price demanded of every order
OrderValidLimitRequired(quantity, limit_price) ==
    /\ quantity > 0
    /\ limit_price # None
    /\ limit_price[1] > 0

(* Order: the field constraints pydantic enforces when an Order is built *)
OrderValid(quantity, limit_price) ==
    /\ quantity > 0
    /\ limit_price = None \/ limit_price[1] > 0

CreateOrder(algorithm_id, symbol, side, quantity, order_type, limit_price) ==
    /\ Len(orders) < MaxOrders
    /\ IF OrderValid(quantity, limit_price)
       THEN /\ orders' = Append(orders,
                           NewOrder(Len(orders) + 1, algorithm_id, symbol, side,
                                    quantity, order_type, limit_price))
            /\ ret' = "order"
       ELSE /\ orders' = orders
            /\ ret' = "ValidationError"
    /\ UNCHANGED <<calls, initial_capital, commission_rate, slippage_rate, cash,
                   positions, trades, peak_value, total_commissions,
                   total_slippage>>

----------------------------------------------------------------------------
(* Trade: the field constraints pydantic enforces when a Trade is built *)
TradeValid(trade) ==
    /\ trade.entry_price.num > 0
    /\ trade.entry_quantity > 0
    /\ trade.exit_price > 0
    /\ trade.exit_quantity > 0
    /\ trade.total_commission >= 0
    /\ trade.total_slippage >= 0

(* the entry order _close_position picks: the last one of the history that
   is a FILLED buy of the position's symbol and algorithm *)
EntryCandidates(ords, position) ==
    {j \in 1..Len(ords) :
        /\ ords[j].symbol = position.symbol
        /\ ords[j].algorithm_id = position.algorithm_id
        /\ ords[j].side = "LONG"
        /\ ords[j].status = "FILLED"}

Last(S) == CHOOSE j \in S : \A k \in S : k <= j

GrossPnl(exit_price, average_price, quantity) ==
    FracMul(FracSub(FracOfInt(exit_price), average_price), FracOfInt(quantity))

NetPnl(gross_pnl, entry_order, exit_order) ==
    FracSub(gross_pnl,
            FracOfInt(entry_order.commission + exit_order.commission
                      + entry_order.slippage + exit_order.slippage))

(* Portfolio._close_position: position.quantity is the quantity left after
   the exit order was subtracted.  Yields the trade list and the exception
   raised, if any. *)
ClosePosition(ords, trs, exit_order, position) ==
    LET found == EntryCandidates(ords, position) IN
    IF found = {} THEN [trades |-> trs, exc |-> "none"]
    ELSE
      LET entry_order == ords[Last(found)]
          gross_pnl == GrossPnl(exit_order.filled_price[1],
                                position.average_price, position.quantity)
          net_pnl == NetPnl(gross_pnl, entry_order, exit_order)
          basis == FracMul(position.average_price, FracOfInt(position.quantity))
      IN
      IF basis.num = 0 THEN [trades |-> trs, exc |-> "ZeroDivisionError"]
      ELSE
        LET trade ==
              [trade_id         |-> Len(trs) + 1,
               algorithm_id     |-> position.algorithm_id,
               symbol           |-> position.symbol,
               entry_order_id   |-> entry_order.order_id,
               entry_price      |-> position.average_price,
               entry_time       |-> entry_order.filled_at,
               entry_quantity   |-> position.quantity,
               exit_order_id    |-> exit_order.order_id,
               exit_price       |-> exit_order.filled_price[1],
               exit_time        |-> exit_order.filled_at,
               exit_quantity    |-> position.quantity,
               gross_pnl        |-> gross_pnl,
               net_pnl          |-> net_pnl,
               pnl_percent      |-> FracMul(FracDiv(gross_pnl, basis), FracOfInt(100)),
               total_commission |-> entry_order.commission + exit_order.commission,
               total_slippage   |-> entry_order.slippage + exit_order.slippage,
               is_open          |-> FALSE]
        IN
        IF TradeValid(trade)
        THEN [trades |-> Append(trs, trade), exc |-> "none"]
        ELSE [trades |-> trs, exc |-> "ValidationError"]

Put(book, key, position) ==
    [k \in DOMAIN book \cup {key} |-> IF k = key THEN position ELSE book[k]]

Remove(book, key) == [k \in DOMAIN book \ {key} |-> book[k]]

\* the mean of the old average and the fill price, the quantities ignored
AveragePriceUnweighted(average_price, quantity, filled_price, filled_quantity) ==
    FracDiv(FracAdd(average_price, FracOfInt(filled_price)), FracOfInt(2))

(* the volume-weighted average price of a position after a buy *)
AveragePrice(average_price, quantity, filled_price, filled_quantity) ==
    FracDiv(FracAdd(FracMul(average_price, FracOfInt(quantity)),
                    FracOfInt(filled_price * filled_quantity)),
            FracOfInt(quantity + filled_quantity))

\* a sell taken as the sale of all the shares held
ReduceToNothing(position, quantity) == [position EXCEPT !.quantity = 0]

(* position.quantity -= order.quantity *)
Reduce(position, quantity) == [position EXCEPT !.quantity = @ - quantity]

(* Position: the field constraints pydantic enforces when a Position is
   built *)
PositionValid(quantity, average_price) == quantity >= 0 /\ average_price >= 0

(* Portfolio._update_position for an order just marked FILLED.  Yields the
   book, the trade list and the exception raised, if any. *)
UpdatePosition(book, trs, ords, order) ==
    LET key == OrderKey(order) IN
    IF order.side = "LONG" THEN
      IF key \notin DOMAIN book THEN
        IF ~PositionValid(order.quantity, order.filled_price[1])
        THEN [positions |-> book, trades |-> trs, exc |-> "ValidationError"]
        ELSE
        [positions |-> Put(book, key,
                           [symbol        |-> order.symbol,
                            algorithm_id  |-> order.algorithm_id,
                            side          |-> "LONG",
                            quantity      |-> order.quantity,
                            average_price |-> FracOfInt(order.filled_price[1]),
                            opened_at     |-> order.filled_at]),
         trades |-> trs, exc |-> "none"]
      ELSE
        LET position == book[key]
            quantity == position.quantity + order.quantity
        IN
        IF quantity = 0
        THEN [positions |-> Put(book, key, [position EXCEPT !.quantity = quantity]),
              trades |-> trs, exc |-> "ZeroDivisionError"]
        ELSE [positions |->
                Put(book, key,
                    [position EXCEPT
                       !.quantity = quantity,
                       !.average_price =
                           AveragePrice(position.average_price, position.quantity,
                                        order.filled_price[1], order.quantity),
                       !.side = "LONG"]),
              trades |-> trs, exc |-> "none"]
    ELSE
      IF key \notin DOMAIN book
      THEN [positions |-> book, trades |-> trs, exc |-> "none"]
      ELSE
        LET position == Reduce(book[key], order.quantity)
            reduced == Put(book, key, position)
        IN
        IF position.quantity <= 0 THEN
          LET closed == ClosePosition(ords, trs, order, position) IN
          IF closed.exc # "none"
          THEN [positions |-> reduced, trades |-> closed.trades, exc |-> closed.exc]
          ELSE [positions |-> Remove(book, key), trades |-> closed.trades,
                exc |-> "none"]
        ELSE [positions |-> reduced, trades |-> trs, exc |-> "none"]

----------------------------------------------------------------------------
(* Portfolio.execute_order *)

SlippageAmount(current_price) == TimesRate(current_price, slippage_rate)

\* the slippage applied in the trader's favour
ExecutionPriceFavourable(side, current_price) ==
    IF side = "LONG"
    THEN current_price - SlippageAmount(current_price)
    ELSE current_price + SlippageAmount(current_price)

ExecutionPrice(side, current_price) ==
    IF side = "LONG"
    THEN current_price + SlippageAmount(current_price)
    ELSE current_price - SlippageAmount(current_price)

TradeValue(order, current_price) ==
    ExecutionPrice(order.side, current_price) * order.quantity

\* the commission taken on the market price, the slippage left out
CommissionOnMarketPrice(order, current_price) ==
    TimesRate(current_price * order.quantity, commission_rate)

Commission(order, current_price) ==
    TimesRate(TradeValue(order, current_price), commission_rate)

TotalCost(order, current_price) ==
    TradeValue(order, current_price) + Commission(order, current_price)

(* a limit order with no limit price *)
MalformedLimit(order) == order.order_type = "LIMIT" /\ order.limit_price = None

\* the status left as it was
RejectForgotten(ords, i) == ords

(* order.status = OrderStatus.REJECTED *)
Reject(ords, i) == [ords EXCEPT ![i].status = "REJECTED"]

\* the limit conditions of buys and sells exchanged
LimitUnmetSidesSwapped(order, current_price) ==
    \/ order.side = "SHORT" /\ current_price > order.limit_price[1]
    \/ order.side = "LONG" /\ current_price < order.limit_price[1]

(* the limit order is not to be executed at this price *)
LimitUnmet(order, current_price) ==
    \/ order.side = "LONG" /\ current_price > order.limit_price[1]
    \/ order.side = "SHORT" /\ current_price < order.limit_price[1]

\* the commission left out of the cost checked against cash
InsufficientCashWithoutCommission(available, trade_value, commission) ==
    available < trade_value

InsufficientCash(available, trade_value, commission) ==
    available < trade_value + commission

\* only a FILLED order counts as already executed
NotPendingOnlyFilled(order) == order.status = "FILLED"

\* only a REJECTED order counts as already executed
NotPendingOnlyRejected(order) == order.status = "REJECTED"

NotPending(order) == order.status # "PENDING"

(* datetime.utcnow() at a fill: a clock that advances with every fill *)
Now(ords) == Cardinality({j \in 1..Len(ords) : ords[j].status = "FILLED"}) + 1

\* the fill fields written, the status assignment forgotten
FillWithoutStatus(order, current_price, now) ==
    [order EXCEPT
       !.filled_price = Some(ExecutionPrice(order.side, current_price)),
       !.filled_at    = Some(now),
       !.commission   = Commission(order, current_price),
       !.slippage     = SlippageAmount(current_price) * order.quantity]

(* the order as lines 187-191 leave it *)
Fill(order, current_price, now) ==
    [order EXCEPT
       !.filled_price = Some(ExecutionPrice(order.side, current_price)),
       !.filled_at    = Some(now),
       !.commission   = Commission(order, current_price),
       !.slippage     = SlippageAmount(current_price) * order.quantity,
       !.status       = "FILLED"]

\* a sell debited instead of credited
CashAfterSellDebited(available, order, current_price) ==
    available - (TradeValue(order, current_price) + Commission(order, current_price))

CashAfter(available, order, current_price) ==
    IF order.side = "LONG"
    THEN available - (TradeValue(order, current_price) + Commission(order, current_price))
    ELSE available + (TradeValue(order, current_price) - Commission(order, current_price))

ExecuteOrder(i, current_price) ==
    LET order == orders[i] IN
    /\ UNCHANGED <<calls, initial_capital, commission_rate, slippage_rate, peak_value>>
    /\ IF NotPending(order) THEN
         /\ ret' = "false"
         /\ UNCHANGED <<orders, ledger>>
       ELSE IF MalformedLimit(order) THEN
         /\ orders' = Reject(orders, i)
         /\ ret' = "false"
         /\ UNCHANGED ledger
       ELSE IF order.order_type = "LIMIT" /\ LimitUnmet(order, current_price) THEN
         /\ ret' = "false"
         /\ UNCHANGED <<orders, ledger>>
       ELSE IF order.side = "LONG"
               /\ InsufficientCash(cash, TradeValue(order, current_price),
                                   Commission(order, current_price)) THEN
         /\ orders' = Reject(orders, i)
         /\ ret' = "false"
         /\ UNCHANGED ledger
       ELSE
         LET filled == Fill(order, current_price, Now(orders))
             ords == [orders EXCEPT ![i] = filled]
             updated == UpdatePosition(positions, trades, ords, filled)
         IN
         /\ orders' = ords
         /\ total_commissions' = total_commissions + filled.commission
         /\ total_slippage' = total_slippage + filled.slippage
         /\ positions' = updated.positions
         /\ trades' = updated.trades
         /\ IF updated.exc # "none"
            THEN cash' = cash /\ ret' = updated.exc
            ELSE cash' = CashAfter(cash, order, current_price) /\ ret' = "true"

----------------------------------------------------------------------------
\* <<order_type, limit_price, quantity>> of the orders created
OrderInputs ==
    {<<"MARKET", None, q>> : q \in Quantities}
        \cup {<<"LIMIT", Some(Money(l)), q>> : l \in LimitPrices, q \in LimitQuantities}

Next ==
    \/ \E pair \in OrderPairs, side \in {"LONG", "SHORT"}, input \in OrderInputs :
          CreateOrder(pair[1], pair[2], side, input[3], input[1], input[2])
    \/ \E i \in 1..Len(orders), p \in Prices : ExecuteOrder(i, Money(p))

Spec == Init /\ [][Next]_vars

----------------------------------------------------------------------------
(* Valuation *)

\* the positions a valuation counts: quantity > 0 and a price supplied
Priced(book, current_prices) ==
    {key \in DOMAIN book :
        book[key].quantity > 0 /\ book[key].symbol \in DOMAIN current_prices}

RECURSIVE PositionsValue(_, _, _)
PositionsValue(book, current_prices, keys) ==
    IF keys = {} THEN 0
    ELSE LET key == CHOOSE k \in keys : TRUE
         IN  book[key].quantity * current_prices[book[key].symbol]
               + PositionsValue(book, current_prices, keys \ {key})

(* Portfolio.get_total_value *)
TotalValue(current_prices) ==
    cash + PositionsValue(positions, current_prices, Priced(positions, current_prices))

(* the PortfolioSnapshot get_snapshot builds; initial_capital # 0 *)
Snapshot(current_prices) ==
    LET positions_value ==
            PositionsValue(positions, current_prices, Priced(positions, current_prices))
        total_value == cash + positions_value
        total_pnl == total_value - initial_capital
    IN  [cash              |-> cash,
         positions_value   |-> positions_value,
         total_value       |-> total_value,
         total_pnl         |-> total_pnl,
         total_pnl_percent |-> FracMul(Frac(total_pnl, initial_capital), FracOfInt(100)),
         num_positions     |->
             Cardinality({key \in DOMAIN positions : positions[key].quantity > 0})]

(* PortfolioSnapshot: the field constraints pydantic enforces *)
SnapshotValid(snapshot) ==
    /\ snapshot.cash >= 0
    /\ snapshot.positions_value >= 0
    /\ snapshot.total_value > 0
    /\ snapshot.num_positions >= 0

\* the watermark overwritten by every valuation
PeakAfterLatest(peak, total_value) == total_value

(* the watermark after a valuation of total_value *)
PeakAfter(peak, total_value) == IF total_value > peak THEN total_value ELSE peak

(* Portfolio.get_snapshot *)
GetSnapshot(current_prices) ==
    /\ UNCHANGED <<calls, initial_capital, commission_rate, slippage_rate, orders, ledger>>
    /\ IF initial_capital = 0
       THEN ret' = "ZeroDivisionError" /\ peak_value' = peak_value
       ELSE /\ peak_value' = PeakAfter(peak_value, TotalValue(current_prices))
            /\ ret' = IF SnapshotValid(Snapshot(current_prices))
                      THEN "snapshot" ELSE "ValidationError"

(* Portfolio.reset *)
Reset ==
    /\ cash' = initial_capital
    /\ positions' = EmptyBook
    /\ orders' = <<>>
    /\ trades' = <<>>
    /\ peak_value' = initial_capital
    /\ total_commissions' = 0
    /\ total_slippage' = 0
    /\ ret' = "reset"
    /\ UNCHANGED <<calls, initial_capital, commission_rate, slippage_rate>>

----------------------------------------------------------------------------
(* The whole engine on one (algorithm, symbol) pair: orders of every kind,
   the invalid ones included, valuation and reset *)

EngineCapitals == {0, 5}

EnginePairs == {<<"algo", "AAPL">>}

\* <<order_type, limit_price, quantity>>
EngineInputs ==
    OrderInputs \cup {<<"LIMIT", None, 1>>, <<"LIMIT", Some(0), 1>>, <<"MARKET", None, 0>>}

\* the price maps handed to a valuation
PriceMaps ==
    {EmptyBook} \cup {[symbol \in {pair[2]} |-> Money(p)] : pair \in EnginePairs, p \in Prices}

EngineRates == {<<1, 1>>}

InitEngine ==
    /\ initial_capital \in {Money(c) : c \in EngineCapitals}
    /\ \E rates \in EngineRates :
          commission_rate = rates[1] /\ slippage_rate = rates[2]
    /\ cash = initial_capital
    /\ positions = EmptyBook
    /\ orders = <<>>
    /\ trades = <<>>
    /\ peak_value = initial_capital
    /\ total_commissions = 0
    /\ total_slippage = 0
    /\ ret = "none"
    /\ calls = NoCalls

NextEngine ==
    \/ \E pair \in EnginePairs, side \in {"LONG", "SHORT"}, input \in EngineInputs :
          CreateOrder(pair[1], pair[2], side, input[3], input[1], input[2])
    \/ \E i \in 1..Len(orders), p \in Prices : ExecuteOrder(i, Money(p))
    \/ \E current_prices \in PriceMaps : GetSnapshot(current_prices)
    \/ Reset

SpecEngine == InitEngine /\ [][NextEngine]_vars

----------------------------------------------------------------------------
(* Two (algorithm, symbol) pairs of strings that hold the separator *)

KeyPairs == {<<"a", "b:c">>, <<"a:b", "c">>}

NextKeys ==
    \/ \E pair \in KeyPairs, side \in {"LONG", "SHORT"}, quantity \in Quantities :
          CreateOrder(pair[1], pair[2], side, quantity, "MARKET", None)
    \/ \E i \in 1..Len(orders), p \in Prices : ExecuteOrder(i, Money(p))

SpecKeys == Init /\ [][NextKeys]_vars

----------------------------------------------------------------------------
(* Valuation queries on a ledger without fees: get_snapshot,
   get_total_value and get_max_drawdown between the orders *)

(* the mark of a position in get_max_drawdown,
   (p.current_price or p.average_price): nothing in the engine assigns
   Position.current_price, which keeps its default None *)
MarkPrice(position) == position.average_price

RECURSIVE MarkedValue(_, _)
MarkedValue(book, keys) ==
    IF keys = {} THEN FracOfInt(0)
    ELSE LET key == CHOOSE k \in keys : TRUE
         IN  FracAdd(FracMul(FracOfInt(book[key].quantity), MarkPrice(book[key])),
                     MarkedValue(book, keys \ {key}))

(* the value Portfolio.get_max_drawdown returns *)
MaxDrawdown ==
    IF peak_value <= 0 THEN FracOfInt(0)
    ELSE LET current_value ==
                 FracAdd(FracOfInt(cash),
                         MarkedValue(positions,
                                     {key \in DOMAIN positions : positions[key].quantity > 0}))
             drawdown ==
                 FracMul(FracDiv(FracSub(current_value, FracOfInt(peak_value)),
                                 FracOfInt(peak_value)),
                         FracOfInt(100))
         IN  IF drawdown.num < 0 THEN drawdown ELSE FracOfInt(0)

(* Portfolio.get_max_drawdown *)
GetMaxDrawdown ==
    /\ ret' = "drawdown"
    /\ UNCHANGED <<calls, initial_capital, commission_rate, slippage_rate, orders, ledger,
                   peak_value>>

(* Portfolio.get_total_value *)
GetTotalValue(current_prices) ==
    /\ ret' = "value"
    /\ UNCHANGED <<calls, initial_capital, commission_rate, slippage_rate, orders, ledger,
                   peak_value>>

ValuationCapitals == {0, 4}

ValuationRates == {<<0, 0>>}

InitValuation ==
    /\ initial_capital \in {Money(c) : c \in ValuationCapitals}
    /\ \E rates \in ValuationRates :
          commission_rate = rates[1] /\ slippage_rate = rates[2]
    /\ cash = initial_capital
    /\ positions = EmptyBook
    /\ orders = <<>>
    /\ trades = <<>>
    /\ peak_value = initial_capital
    /\ total_commissions = 0
    /\ total_slippage = 0
    /\ ret = "none"
    /\ calls = NoCalls

NextValuation ==
    \/ \E pair \in EnginePairs, side \in {"LONG", "SHORT"}, quantity \in Quantities :
          CreateOrder(pair[1], pair[2], side, quantity, "MARKET", None)
    \/ \E i \in 1..Len(orders), p \in Prices : ExecuteOrder(i, Money(p))
    \/ \E current_prices \in PriceMaps : GetSnapshot(current_prices)
    \/ \E current_prices \in PriceMaps : GetTotalValue(current_prices)
    \/ GetMaxDrawdown

SpecValuation == InitValuation /\ [][NextValuation]_vars

----------------------------------------------------------------------------
(* Calls with arguments outside their documented range: a quantity or a
   current price that is zero or negative *)

InvalidQuantities == {-1, 0}

InvalidPrices == {-1, 0}

NextInvalid ==
    \/ \E pair \in EnginePairs, side \in {"LONG", "SHORT"},
          quantity \in InvalidQuantities \cup Quantities :
          CreateOrder(pair[1], pair[2], side, quantity, "MARKET", None)
    \/ \E i \in 1..Len(orders), p \in InvalidPrices \cup {1} : ExecuteOrder(i, Money(p))

SpecInvalid == Init /\ [][NextInvalid]_vars

----------------------------------------------------------------------------
(* Two callers in execute_order at once.  Portfolio holds no lock, so a
   second caller may run any statement of execute_order between two
   statements of the first.  A call goes through the cash check (lines
   148-184), the order mutation (187-195), the position update (198) and
   the cash update (201-204); calls[t] is where caller t stands, with the
   arguments of its call. *)

Callers == {"t1", "t2"}

Idle == [pc |-> "idle", order |-> None, current_price |-> None]

\* the caller t is past the cash check of a call and before its end
InCall(t) == calls[t].pc # "idle"

(* lines 148-184: the tests that end the call, or the way on to the fill *)
Check(t, i, current_price) ==
    LET order == orders[i] IN
    /\ calls[t].pc = "idle"
    /\ UNCHANGED <<initial_capital, commission_rate, slippage_rate, peak_value, ledger>>
    /\ IF NotPending(order) THEN
         /\ ret' = "false"
         /\ UNCHANGED <<orders, calls>>
       ELSE IF MalformedLimit(order) THEN
         /\ orders' = Reject(orders, i)
         /\ ret' = "false"
         /\ UNCHANGED calls
       ELSE IF order.order_type = "LIMIT" /\ LimitUnmet(order, current_price) THEN
         /\ ret' = "false"
         /\ UNCHANGED <<orders, calls>>
       ELSE IF order.side = "LONG"
               /\ InsufficientCash(cash, TradeValue(order, current_price),
                                   Commission(order, current_price)) THEN
         /\ orders' = Reject(orders, i)
         /\ ret' = "false"
         /\ UNCHANGED calls
       ELSE
         /\ calls' = [calls EXCEPT ![t] = [pc |-> "checked", order |-> Some(i),
                                           current_price |-> Some(current_price)]]
         /\ UNCHANGED <<orders, ret>>

(* lines 187-195: the fill fields of the order and the counters *)
Mutate(t) ==
    /\ calls[t].pc = "checked"
    /\ LET i == calls[t].order[1]
           filled == Fill(orders[i], calls[t].current_price[1], Now(orders))
       IN  /\ orders' = [orders EXCEPT ![i] = filled]
           /\ total_commissions' = total_commissions + filled.commission
           /\ total_slippage' = total_slippage + filled.slippage
    /\ calls' = [calls EXCEPT ![t].pc = "filled"]
    /\ UNCHANGED <<initial_capital, commission_rate, slippage_rate, peak_value,
                   cash, positions, trades, ret>>

(* line 198: _update_position, which may raise and so end the call *)
Update(t) ==
    /\ calls[t].pc = "filled"
    /\ LET updated == UpdatePosition(positions, trades, orders, orders[calls[t].order[1]])
       IN  /\ positions' = updated.positions
           /\ trades' = updated.trades
           /\ IF updated.exc # "none"
              THEN ret' = updated.exc /\ calls' = [calls EXCEPT ![t] = Idle]
              ELSE ret' = ret /\ calls' = [calls EXCEPT ![t].pc = "updated"]
    /\ UNCHANGED <<initial_capital, commission_rate, slippage_rate, peak_value,
                   cash, orders, total_commissions, total_slippage>>

(* lines 201-211: the cash update and the return *)
Settle(t) ==
    /\ calls[t].pc = "updated"
    /\ cash' = CashAfter(cash, orders[calls[t].order[1]], calls[t].current_price[1])
    /\ ret' = "true"
    /\ calls' = [calls EXCEPT ![t] = Idle]
    /\ UNCHANGED <<initial_capital, commission_rate, slippage_rate, peak_value,
                   orders, positions, trades, total_commissions, total_slippage>>

InitCallers ==
    /\ initial_capital \in {Money(c) : c \in InitialCapitals}
    /\ \E rates \in RatePairs :
          commission_rate = rates[1] /\ slippage_rate = rates[2]
    /\ cash = initial_capital
    /\ positions = EmptyBook
    /\ orders = <<>>
    /\ trades = <<>>
    /\ peak_value = initial_capital
    /\ total_commissions = 0
    /\ total_slippage = 0
    /\ ret = "none"
    /\ calls = [t \in Callers |-> Idle]

NextCallers ==
    \/ \E pair \in EnginePairs, side \in {"LONG", "SHORT"}, quantity \in Quantities :
          CreateOrder(pair[1], pair[2], side, quantity, "MARKET", None)
    \/ \E t \in Callers, i \in 1..Len(orders), p \in Prices : Check(t, i, Money(p))
    \/ \E t \in Callers : Mutate(t)
    \/ \E t \in Callers : Update(t)
    \/ \E t \in Callers : Settle(t)

SpecCallers == InitCallers /\ [][NextCallers]_vars

----------------------------------------------------------------------------
(* Properties *)

OrderIndices == 1..Len(orders)

FilledBuys == {j \in OrderIndices : orders[j].side = "LONG" /\ orders[j].status = "FILLED"}

FilledSells == {j \in OrderIndices : orders[j].side = "SHORT" /\ orders[j].status = "FILLED"}

\* the step is a call execute_order(orders[i], p) on a PENDING order that fills it
Fills(i, p) ==
    /\ ExecuteOrder(i, Money(p))
    /\ orders[i].status = "PENDING"
    /\ orders'[i].status = "FILLED"

\* the quantity held for the key before the step, 0 when there is no position
Held(key) == IF key \in DOMAIN positions THEN positions[key].quantity ELSE 0

(* C1: cash invariant.  In every state reached by create_order and
   execute_order calls from a portfolio with initial_capital >= 0 and rates
   in [0, 1), cash >= 0. *)
C1_CashNonNegative == cash >= 0

\* all the cash was spent by filled buys
C1_Witness ==
    /\ cash = 0
    /\ Cardinality(FilledBuys) = 2
    /\ ret = "true"

(* C2: execute_order is atomic.  After any call either the order is FILLED
   and cash, the commission and slippage counters, the position book and, on
   a closure, the trade list reflect the fill, or the order is not filled by
   the call and cash, counters, positions and trades are unchanged. *)
C2_Applied(i) ==
    LET order == orders'[i]
        key == OrderKey(order)
        value == order.filled_price[1] * order.quantity
    IN
    /\ orders[i].status = "PENDING"
    /\ order.status = "FILLED"
    /\ total_commissions' = total_commissions + order.commission
    /\ total_slippage' = total_slippage + order.slippage
    /\ cash' = IF order.side = "LONG"
               THEN cash - (value + order.commission)
               ELSE cash + (value - order.commission)
    /\ IF order.side = "LONG"
       THEN /\ key \in DOMAIN positions'
            /\ positions'[key].quantity = Held(key) + order.quantity
            /\ trades' = trades
       ELSE IF key \notin DOMAIN positions
       THEN positions' = positions /\ trades' = trades
       ELSE IF positions[key].quantity > order.quantity
       THEN /\ key \in DOMAIN positions'
            /\ positions'[key].quantity = positions[key].quantity - order.quantity
            /\ trades' = trades
       ELSE /\ key \notin DOMAIN positions'
            /\ Len(trades') = Len(trades) + 1

C2_Untouched(i) ==
    /\ \/ orders' = orders
       \/ /\ orders[i].status = "PENDING"
          /\ orders' = [orders EXCEPT ![i].status = "REJECTED"]
    /\ UNCHANGED ledger

C2_Atomic ==
    [][\A i \in OrderIndices, p \in Prices :
         ExecuteOrder(i, Money(p)) => C2_Applied(i) \/ C2_Untouched(i)]_vars

(* C3: closure invariant.  Whenever a filled sell brings the quantity of the
   position of its key to <= 0, an entry order matching, exactly one Trade is
   appended in that step and the position is absent from the book after it. *)
C3_Closure ==
    [][\A i \in OrderIndices, p \in Prices :
         LET key == OrderKey(orders[i]) IN
         ( /\ Fills(i, p)
           /\ orders[i].side = "SHORT"
           /\ key \in DOMAIN positions
           /\ positions[key].quantity - orders[i].quantity <= 0
           /\ EntryCandidates(orders, positions[key]) # {} )
         => /\ Len(trades') = Len(trades) + 1
            /\ key \notin DOMAIN positions']_vars

(* C4: for every PENDING order with quantity > 0 and every current_price > 0
   execute_order returns true or false and raises no exception. *)
C4_NoException == ret \in {"none", "order", "true", "false"}

(* C5: no zero-quantity residue.  Between public operations every position
   stored in the book has quantity > 0. *)
C5_NoResidue == \A key \in DOMAIN positions : positions[key].quantity > 0

(* C6 as first stated: whenever a PENDING buy order is executed with
   cash < execution_price * quantity + commission, the call returns false,
   the order becomes REJECTED and the ledger is unchanged. *)
C6_AnyPendingBuyRejected ==
    [][\A i \in OrderIndices, p \in Prices :
         ( /\ ExecuteOrder(i, Money(p))
           /\ orders[i].status = "PENDING"
           /\ orders[i].side = "LONG"
           /\ cash < TotalCost(orders[i], Money(p)) )
         => /\ ret' = "false"
            /\ orders' = [orders EXCEPT ![i].status = "REJECTED"]
            /\ UNCHANGED ledger]_vars

(* C6: insufficient-cash rejection.  When a PENDING buy order that an unmet
   limit condition does not defer (a market order, or a limit order with
   current_price <= its limit) is executed with
   cash < execution_price * quantity + commission, the call returns false,
   the order becomes REJECTED, and cash, the position book, the trade list
   and the commission and slippage counters are unchanged. *)
C6_InsufficientCashRejected ==
    [][\A i \in OrderIndices, p \in Prices :
         ( /\ ExecuteOrder(i, Money(p))
           /\ orders[i].status = "PENDING"
           /\ orders[i].side = "LONG"
           /\ ~ ( /\ orders[i].order_type = "LIMIT"
                  /\ orders[i].limit_price # None
                  /\ Money(p) > orders[i].limit_price[1] )
           /\ cash < TotalCost(orders[i], Money(p)) )
         => /\ ret' = "false"
            /\ orders' = [orders EXCEPT ![i].status = "REJECTED"]
            /\ UNCHANGED ledger]_vars

\* a buy was rejected for a key that holds a position
C6_Witness ==
    /\ ret = "false"
    /\ \E i \in OrderIndices :
         /\ orders[i].status = "REJECTED"
         /\ orders[i].side = "LONG"
         /\ OrderKey(orders[i]) \in DOMAIN positions
         /\ positions[OrderKey(orders[i])].quantity > 0
         /\ cash > 0

(* C7: idempotence.  execute_order on an order that is not PENDING returns
   false and leaves the order, cash, counters, positions and trades unchanged,
   at any price and however often it is repeated. *)
C7_NotPendingNoOp ==
    [][\A i \in OrderIndices, p \in Prices :
         (ExecuteOrder(i, Money(p)) /\ orders[i].status # "PENDING")
         => /\ ret' = "false"
            /\ orders' = orders
            /\ UNCHANGED ledger]_vars

\* a call that returned false with every order FILLED: the order it was given
\* had been filled by an earlier call
C7_Witness ==
    /\ ret = "false"
    /\ Len(orders) = 2
    /\ \A i \in OrderIndices : orders[i].status = "FILLED"

(* C8: gross P&L of a closing trade.  When a sell closes a position that held
   quantity Q at average price A, the Trade recorded has
   gross_pnl = (exit fill price - A) * Q, entry_quantity = exit_quantity = Q,
   pnl_percent = gross_pnl / (A * Q) * 100 and is_open = false, and the
   position is removed. *)
C8_GrossPnl ==
    [][\A i \in OrderIndices, p \in Prices :
         LET key == OrderKey(orders[i])
             Q == positions[key].quantity
             A == positions[key].average_price
             gross == FracMul(FracSub(FracOfInt(orders'[i].filled_price[1]), A),
                              FracOfInt(Q))
             trade == trades'[Len(trades')]
         IN
         ( /\ Fills(i, p)
           /\ orders[i].side = "SHORT"
           /\ key \in DOMAIN positions
           /\ Q > 0
           /\ orders[i].quantity >= Q )
         => /\ Len(trades') = Len(trades) + 1
            /\ trade.gross_pnl = gross
            /\ trade.entry_quantity = Q
            /\ trade.exit_quantity = Q
            /\ trade.pnl_percent =
                 FracMul(FracDiv(gross, FracMul(A, FracOfInt(Q))), FracOfInt(100))
            /\ trade.is_open = FALSE
            /\ key \notin DOMAIN positions']_vars

(* C9: net P&L identity, net_pnl = gross_pnl - total_commission -
   total_slippage for every Trade of the trade list.  No call ever appends a
   Trade (NoTradeRecorded is an invariant), so no state shows the identity. *)
NoTradeRecorded == trades = <<>>

RECURSIVE SumQuantity(_)
SumQuantity(S) ==
    IF S = {} THEN 0
    ELSE LET j == CHOOSE k \in S : TRUE
         IN  orders[j].quantity + SumQuantity(S \ {j})

RECURSIVE SumCost(_)
SumCost(S) ==
    IF S = {} THEN 0
    ELSE LET j == CHOOSE k \in S : TRUE
         IN  orders[j].quantity * orders[j].filled_price[1] + SumCost(S \ {j})

\* the buys filled into the position of the key since it was opened
BuysSince(key) ==
    {j \in FilledBuys :
        /\ OrderKey(orders[j]) = key
        /\ orders[j].filled_at[1] >= positions[key].opened_at[1]}

\* the sells of the key filled after the position was opened
SellsSince(key) ==
    {j \in FilledSells :
        /\ OrderKey(orders[j]) = key
        /\ orders[j].filled_at[1] > positions[key].opened_at[1]}

(* C10: average-price invariant.  After filled buys of quantities q1..qn at
   fill prices p1..pn into an empty key, no sell intervening, the position's
   quantity is the sum of the qi and its average_price is
   sum(qi * pi) / sum(qi); for n = 1 these are the fill quantity and price. *)
C10_AveragePrice ==
    \A key \in DOMAIN positions :
        SellsSince(key) = {} =>
            /\ positions[key].quantity = SumQuantity(BuysSince(key))
            /\ positions[key].average_price.num * SumQuantity(BuysSince(key))
                 = SumCost(BuysSince(key)) * positions[key].average_price.den

\* a position built from two buys at different fill prices
C10_Witness ==
    \E key \in DOMAIN positions :
        /\ SellsSince(key) = {}
        /\ \E i, j \in BuysSince(key) :
             /\ orders[i].filled_price # orders[j].filled_price
             /\ orders[i].quantity # orders[j].quantity

(* C11: effect of a successful fill.  When execute_order returns true the
   order is FILLED with filled_price = execution price, commission =
   execution_price * quantity * commission_rate and the slippage recorded;
   cash falls by value + commission for a buy and rises by value - commission
   for a sell; total_commissions and total_slippage rise by the order's
   commission and slippage. *)
C11_FillEffect ==
    [][\A i \in OrderIndices, p \in Prices :
         LET order == orders'[i]
             slip == (Money(p) * slippage_rate) \div RateDen
             price == IF orders[i].side = "LONG" THEN Money(p) + slip ELSE Money(p) - slip
             value == price * orders[i].quantity
             fee == (value * commission_rate) \div RateDen
         IN
         (ExecuteOrder(i, Money(p)) /\ orders[i].status = "PENDING" /\ ret' = "true")
         => /\ order.status = "FILLED"
            /\ order.filled_price = Some(price)
            /\ order.commission = fee
            /\ fee * RateDen = value * commission_rate
            /\ order.slippage = slip * order.quantity
            /\ cash' = IF order.side = "LONG" THEN cash - (value + fee)
                                               ELSE cash + (value - fee)
            /\ total_commissions' = total_commissions + fee
            /\ total_slippage' = total_slippage + order.slippage]_vars

\* a buy and a sell were filled with a commission, the last call returning true
C11_Witness ==
    /\ ret = "true"
    /\ FilledBuys # {}
    /\ FilledSells # {}
    /\ \A i \in OrderIndices : orders[i].commission > 0

(* C12: slippage is always adverse.  Every order filled at current_price has
   filled_price = current_price * (1 + slippage_rate) >= current_price when
   it is a buy and current_price * (1 - slippage_rate) <= current_price when
   it is a sell. *)
C12_SlippageAdverse ==
    [][\A i \in OrderIndices, p \in Prices :
         LET price == orders'[i].filled_price[1] IN
         Fills(i, p)
         => IF orders[i].side = "LONG"
            THEN /\ price * RateDen = Money(p) * (RateDen + slippage_rate)
                 /\ price >= Money(p)
            ELSE /\ price * RateDen = Money(p) * (RateDen - slippage_rate)
                 /\ price <= Money(p)]_vars

\* a buy was filled above and a sell below the prices they were executed at
C12_Witness ==
    /\ slippage_rate > 0
    /\ \E i \in FilledBuys, j \in FilledSells, p \in Prices :
         orders[i].filled_price[1] > Money(p) /\ orders[j].filled_price[1] < Money(p)

(* C13: limit deferral.  Executing a PENDING LIMIT order that has a limit
   price while the limit condition is unmet (a buy with current_price >
   limit, a sell with current_price < limit) returns false and changes
   neither the order, which stays PENDING and can be executed again, nor the
   ledger; a LIMIT buy is filled only at current_price <= limit and a LIMIT
   sell only at current_price >= limit. *)
C13_LimitDeferral ==
    [][\A i \in OrderIndices, p \in Prices :
         LET order == orders[i]
             unmet == \/ order.side = "LONG" /\ Money(p) > order.limit_price[1]
                      \/ order.side = "SHORT" /\ Money(p) < order.limit_price[1]
         IN
         ( /\ ExecuteOrder(i, Money(p))
           /\ order.status = "PENDING"
           /\ order.order_type = "LIMIT"
           /\ order.limit_price # None )
         => /\ unmet => /\ ret' = "false"
                        /\ orders' = orders
                        /\ UNCHANGED ledger
            /\ orders'[i].status = "FILLED" => ~unmet]_vars

\* the one order, a LIMIT order, is PENDING after a call that returned false
C13_Witness ==
    /\ ret = "false"
    /\ Len(orders) = 1
    /\ orders[1].order_type = "LIMIT"
    /\ orders[1].limit_price # None
    /\ orders[1].status = "PENDING"

(* C14: malformed limit order.  Executing a PENDING LIMIT order with no
   limit price returns false, sets the order to REJECTED and changes nothing
   else of the ledger. *)
C14_MalformedLimitRejected ==
    [][\A i \in OrderIndices, p \in Prices :
         ( /\ ExecuteOrder(i, Money(p))
           /\ orders[i].status = "PENDING"
           /\ orders[i].order_type = "LIMIT"
           /\ orders[i].limit_price = None )
         => /\ ret' = "false"
            /\ orders' = [orders EXCEPT ![i].status = "REJECTED"]
            /\ UNCHANGED <<ledger, peak_value>>]_vars

\* the one order, a LIMIT order with no limit price, was rejected
C14_Witness ==
    /\ ret = "false"
    /\ Len(orders) = 1
    /\ orders[1].order_type = "LIMIT"
    /\ orders[1].limit_price = None
    /\ orders[1].status = "REJECTED"

(* C15: a sell with no position is a no-op.  Executing a sell order for a
   key that has no position creates no position, records no trade and leaves
   positions, trades and cash as they were. *)
C15_SellWithoutPositionNoOp ==
    [][\A i \in OrderIndices, p \in Prices :
         ( /\ ExecuteOrder(i, Money(p))
           /\ orders[i].status = "PENDING"
           /\ orders[i].side = "SHORT"
           /\ OrderKey(orders[i]) \notin DOMAIN positions )
         => /\ positions' = positions
            /\ trades' = trades
            /\ cash' = cash]_vars

(* C16: one position per (strategy, symbol) pair.  Filling an order of the
   pair (s1, y1) never creates, changes or removes the position of another
   pair (s2, y2), and get_position(y, s) returns only a position whose
   algorithm_id is s and whose symbol is y. *)
C16_OnePositionPerPair ==
    [][/\ \A i \in OrderIndices, p \in Prices, other \in KeyPairs :
            (Fills(i, p) /\ other # <<orders[i].algorithm_id, orders[i].symbol>>)
            => GetPosition(other[2], other[1])' = GetPosition(other[2], other[1])
       /\ \A pair \in KeyPairs :
            GetPosition(pair[2], pair[1]) # None
            => /\ GetPosition(pair[2], pair[1])[1].algorithm_id = pair[1]
               /\ GetPosition(pair[2], pair[1])[1].symbol = pair[2]]_vars

(* C17: terminal orders are immutable.  No operation changes an order whose
   status is FILLED, REJECTED or CANCELLED; the status transitions taken are
   PENDING -> FILLED and PENDING -> REJECTED only; filled_price is set only
   on FILLED orders. *)
C17_TerminalImmutable ==
    [][\A i \in 1..Len(orders') :
         /\ orders'[i].filled_price # None => orders'[i].status = "FILLED"
         /\ i \in OrderIndices =>
              /\ orders[i].status # "PENDING" => orders'[i] = orders[i]
              /\ orders'[i].status # orders[i].status =>
                   /\ orders[i].status = "PENDING"
                   /\ orders'[i].status \in {"FILLED", "REJECTED"}]_vars

\* a valuation taken with a FILLED and a REJECTED order in the history
C17_Witness ==
    /\ ret = "snapshot"
    /\ \E i, j \in OrderIndices :
         orders[i].status = "FILLED" /\ orders[j].status = "REJECTED"

\* the step is a call create_order with these arguments
Creates(pair, side, input) == CreateOrder(pair[1], pair[2], side, input[3], input[1], input[2])

\* the history keeps every order it held
HistoryKept ==
    /\ Len(orders') >= Len(orders)
    /\ \A i \in OrderIndices : orders'[i].order_id = orders[i].order_id

\* create_order appended one PENDING order and changed nothing else
Appended ==
    /\ ret' = "order"
    /\ Len(orders') = Len(orders) + 1
    /\ \A i \in OrderIndices : orders'[i] = orders[i]
    /\ orders'[Len(orders')].status = "PENDING"
    /\ UNCHANGED <<ledger, peak_value>>

(* C18 as first stated: create_order with quantity > 0 always succeeds,
   appends exactly one PENDING order and changes nothing else; no operation
   ever removes an order from the history. *)
C18_AppendOnly ==
    [][/\ \A pair \in EnginePairs, side \in {"LONG", "SHORT"}, input \in EngineInputs :
            (Creates(pair, side, input) /\ input[3] > 0) => Appended
       /\ HistoryKept]_vars

(* C18: the order history is append-only but for reset.  create_order with
   quantity > 0 and a limit price that is absent or > 0 succeeds, appends
   exactly one PENDING order and changes nothing else; with a limit price
   <= 0 it raises a validation error and appends nothing; no operation other
   than reset, which empties the history, removes an order from it. *)
C18_AppendOnlyButReset ==
    [][/\ \A pair \in EnginePairs, side \in {"LONG", "SHORT"}, input \in EngineInputs :
            ( /\ Creates(pair, side, input)
              /\ input[3] > 0
              /\ input[2] = None \/ input[2][1] > 0 )
            => Appended
       /\ \A pair \in EnginePairs, side \in {"LONG", "SHORT"}, input \in EngineInputs :
            ( /\ Creates(pair, side, input)
              /\ input[2] # None
              /\ input[2][1] <= 0 )
            => ret' = "ValidationError" /\ UNCHANGED <<orders, ledger, peak_value>>
       /\ HistoryKept \/ (Reset /\ orders' = <<>>)]_vars

\* an order created after a fill moved the cash
C18_Witness ==
    /\ ret = "order"
    /\ Len(orders) = 2
    /\ orders[1].status = "FILLED"
    /\ orders[2].status = "PENDING"
    /\ cash # initial_capital

Max(a, b) == IF a > b THEN a ELSE b

(* C19: snapshot frame.  get_snapshot leaves cash, orders, positions, trades
   and the counters unchanged for every price map, and sets peak_value to
   max(old peak_value, total_value). *)
C19_SnapshotFrame ==
    [][\A current_prices \in PriceMaps :
         GetSnapshot(current_prices)
         => /\ UNCHANGED <<orders, ledger>>
            /\ peak_value' = Max(peak_value, TotalValue(current_prices))]_vars

\* peak_value did not fall, and covers the total value a snapshot returned
PeakKept ==
    /\ peak_value' >= peak_value
    /\ ret' = "snapshot" =>
         \A current_prices \in PriceMaps :
            GetSnapshot(current_prices)
            => peak_value' >= Snapshot(current_prices).total_value

(* C20 as first stated: across any sequence of operations peak_value never
   decreases, and after every get_snapshot it is >= the total_value the
   snapshot returned. *)
C20_PeakMonotone == [][PeakKept]_vars

(* C20: the peak watermark is non-decreasing but for reset.  No operation
   other than reset, which sets it back to initial_capital, decreases
   peak_value, and after every get_snapshot peak_value >= the total_value
   the snapshot returned. *)
C20_PeakMonotoneButReset ==
    [][PeakKept \/ (Reset /\ peak_value' = initial_capital)]_vars

\* a valuation raised the watermark above the initial capital
C20_Witness ==
    /\ ret = "snapshot"
    /\ peak_value > initial_capital
    /\ peak_value > cash

\* the positions of the book that hold shares
Open == {key \in DOMAIN positions : positions[key].quantity > 0}

\* quantity times mark, summed over the positions keys
RECURSIVE BookAtMark(_)
BookAtMark(keys) ==
    IF keys = {} THEN FracOfInt(0)
    ELSE LET key == CHOOSE k \in keys : TRUE
         IN  FracAdd(FracMul(FracOfInt(positions[key].quantity), MarkPrice(positions[key])),
                     BookAtMark(keys \ {key}))

\* min(0, (current_value - peak_value) / peak_value * 100), peak_value > 0
DrawdownOf(current_value) ==
    LET drawdown ==
            FracMul(FracDiv(FracSub(current_value, FracOfInt(peak_value)),
                            FracOfInt(peak_value)),
                    FracOfInt(100))
    IN  IF drawdown.num < 0 THEN drawdown ELSE FracOfInt(0)

(* C21: drawdown is non-positive.  In every reachable state
   get_max_drawdown returns min(0, (current_value - peak_value) /
   peak_value * 100) <= 0, current_value being cash plus, for each position
   of the book, quantity times its mark; it returns 0 when peak_value <= 0
   and changes no state. *)
C21_Drawdown ==
    [][/\ MaxDrawdown.num <= 0
       /\ peak_value <= 0 => MaxDrawdown = FracOfInt(0)
       /\ peak_value > 0 =>
            MaxDrawdown = DrawdownOf(FracAdd(FracOfInt(cash), BookAtMark(DOMAIN positions)))
       /\ GetMaxDrawdown => UNCHANGED <<calls, initial_capital, commission_rate, slippage_rate,
                                         orders, ledger, peak_value>>]_vars

\* quantity times supplied price, summed over the positions keys
RECURSIVE BookAtPrices(_, _)
BookAtPrices(current_prices, keys) ==
    IF keys = {} THEN 0
    ELSE LET key == CHOOSE k \in keys : TRUE
         IN  positions[key].quantity * current_prices[positions[key].symbol]
               + BookAtPrices(current_prices, keys \ {key})

\* the positions whose symbol has a supplied price
WithPrice(current_prices) ==
    {key \in DOMAIN positions : positions[key].symbol \in DOMAIN current_prices}

(* C22: snapshot valuation.  get_snapshot returns cash = ledger cash,
   positions_value = the sum of quantity * current_prices[symbol] over
   exactly the positions whose symbol is in current_prices, total_value =
   cash + positions_value, total_pnl = total_value - initial_capital and
   num_positions = the number of open positions; get_total_value returns
   the same total_value for the same prices. *)
C22_SnapshotValuation ==
    [][\A current_prices \in PriceMaps :
         LET positions_value == BookAtPrices(current_prices, WithPrice(current_prices))
         IN  /\ (GetSnapshot(current_prices) /\ ret' = "snapshot")
                => /\ Snapshot(current_prices).cash = cash
                   /\ Snapshot(current_prices).positions_value = positions_value
                   /\ Snapshot(current_prices).total_value = cash + positions_value
                   /\ Snapshot(current_prices).total_pnl
                        = cash + positions_value - initial_capital
                   /\ Snapshot(current_prices).num_positions = Cardinality(Open)
             /\ GetTotalValue(current_prices)
                => TotalValue(current_prices) = cash + positions_value]_vars

(* C23: valuation is always available.  In every reachable state and for
   every map of positive prices, the empty map included, get_snapshot
   returns a PortfolioSnapshot without raising. *)
C23_SnapshotReturns ==
    [][\A current_prices \in PriceMaps :
         GetSnapshot(current_prices) => ret' = "snapshot"]_vars

(* C24: invalid inputs fail fast.  create_order with quantity <= 0 fails
   with an error and appends no order; execute_order with current_price <= 0
   on a PENDING order fails with an error and leaves the order PENDING and
   cash, counters, positions and trades unchanged. *)
C24_InvalidInputsFail ==
    [][/\ \A pair \in EnginePairs, side \in {"LONG", "SHORT"}, quantity \in InvalidQuantities :
            CreateOrder(pair[1], pair[2], side, quantity, "MARKET", None)
            => ret' = "ValidationError" /\ orders' = orders
       /\ \A i \in OrderIndices, p \in InvalidPrices :
            (ExecuteOrder(i, Money(p)) /\ orders[i].status = "PENDING")
            => /\ ret' \in {"ValidationError", "ZeroDivisionError"}
               /\ orders' = orders
               /\ UNCHANGED ledger]_vars

(* C27: partial sell.  A filled sell of quantity q against a position
   holding Q > q reduces the position's quantity to Q - q, leaves its
   average_price, side and opened_at unchanged, keeps the position in the
   book and records no trade. *)
C27_PartialSell ==
    [][\A i \in OrderIndices, p \in Prices :
         ( /\ Fills(i, p)
           /\ orders[i].side = "SHORT"
           /\ Held(OrderKey(orders[i])) > orders[i].quantity )
         => LET key == OrderKey(orders[i]) IN
            /\ key \in DOMAIN positions'
            /\ positions'[key].quantity = positions[key].quantity - orders[i].quantity
            /\ positions'[key].average_price = positions[key].average_price
            /\ positions'[key].side = positions[key].side
            /\ positions'[key].opened_at = positions[key].opened_at
            /\ DOMAIN positions' = DOMAIN positions
            /\ trades' = trades]_vars

\* one share left of two bought, after a sell of one that returned true
C27_Witness ==
    /\ ret = "true"
    /\ Len(orders) = 2
    /\ orders[1].side = "LONG" /\ orders[1].quantity = 2 /\ orders[1].status = "FILLED"
    /\ orders[2].side = "SHORT" /\ orders[2].quantity = 1 /\ orders[2].status = "FILLED"
    /\ OrderKey(orders[1]) = OrderKey(orders[2])
    /\ positions[OrderKey(orders[1])].quantity = 1

\* filled_price * quantity + sign * commission, summed over the orders S
RECURSIVE SumMoved(_, _)
SumMoved(S, sign) ==
    IF S = {} THEN 0
    ELSE LET j == CHOOSE k \in S : TRUE
         IN  orders[j].filled_price[1] * orders[j].quantity + sign * orders[j].commission
               + SumMoved(S \ {j}, sign)

(* C28: cash accounting identity.  In every reachable state cash =
   initial_capital - the sum over FILLED buy orders of (filled_price *
   quantity + commission) + the sum over FILLED sell orders of
   (filled_price * quantity - commission). *)
C28_CashIdentity ==
    cash = initial_capital - SumMoved(FilledBuys, 1) + SumMoved(FilledSells, -1)

\* the FILLED orders of a side for an (algorithm, symbol) pair
FilledFor(S, pair) ==
    {j \in S : orders[j].algorithm_id = pair[1] /\ orders[j].symbol = pair[2]}

(* C29: no proceeds for shares not held.  In every reachable state, for
   every (strategy, symbol) pair the total quantity of FILLED sell orders is
   at most the total quantity of FILLED buy orders. *)
C29_SoldWithinBought ==
    \A pair \in OrderPairs :
        SumQuantity(FilledFor(FilledSells, pair)) <= SumQuantity(FilledFor(FilledBuys, pair))

(* C30: every position has an entry order.  In every state reached by
   create_order and execute_order, each position of the book has at least
   one FILLED LONG order in the history with its symbol and algorithm_id, so
   the entry scan of _close_position always finds an order. *)
C30_PositionHasEntry ==
    \A key \in DOMAIN positions :
        \E j \in OrderIndices :
            /\ orders[j].symbol = positions[key].symbol
            /\ orders[j].algorithm_id = positions[key].algorithm_id
            /\ orders[j].side = "LONG"
            /\ orders[j].status = "FILLED"

\* a sell took the position to no shares and its close went past the entry scan
C30_Witness ==
    /\ ret = "ZeroDivisionError"
    /\ Len(orders) = 2
    /\ orders[1].side = "LONG" /\ orders[1].status = "FILLED"
    /\ orders[2].side = "SHORT" /\ orders[2].status = "FILLED"
    /\ OrderKey(orders[1]) = OrderKey(orders[2])
    /\ positions[OrderKey(orders[2])].quantity = 0

\* the order of the call the caller t is in, before or after the step
CallOrder(t) == IF InCall(t) THEN calls[t].order ELSE calls'[t].order

\* the caller t takes a step of a call for a buy order while the caller u
\* is in the middle of a call for another buy order
StepsInto(t, u) ==
    /\ t # u
    /\ InCall(u)
    /\ calls'[t] # calls[t]
    /\ CallOrder(t) # calls[u].order
    /\ orders[CallOrder(t)[1]].side = "LONG"
    /\ orders[calls[u].order[1]].side = "LONG"

(* C25: mutual exclusion of executions.  When two callers run
   execute_order for two buy orders against the same Portfolio at once, no
   step of one call occurs between the cash check and the cash update of the
   other, so that cash >= 0 under every interleaving. *)
C25_Serialized ==
    [][/\ \A t \in Callers, u \in Callers : ~StepsInto(t, u)
       /\ cash' >= 0]_vars

====
